---- MODULE Spec2Model ----
(***************************************************************************)
(* Model of the YouTube transcript service: the FastAPI facade             *)
(* (src/main.py) and the Streamlit form (src/app.py).                      *)
(*                                                                         *)
(* Python strings are modelled as sequences of chunks.  A chunk is a short *)
(* piece of text with a known character length and a known character      *)
(* class; the chunk alphabet is chosen so that every substring the code    *)
(* searches for ('youtu.be/', 'youtube.com/watch', 'youtube.com/embed/',   *)
(* 'embed/', '?', '&', '#', ',') can only occur on chunk boundaries.       *)
(***************************************************************************)
EXTENDS Integers, Sequences, FiniteSets, TLC

VARIABLES
    input,          \* normalizer: the raw video reference
    outcome,        \* normalizer: what the validator returned or raised
    component,      \* normalizer: which validator ran last
    segments,       \* formatter: the segment sequence handed to calculate_duration
    duration,       \* formatter: the value calculate_duration returned
    ytt,            \* main.py:21 the process-wide gateway object (its proxy configuration)
    req,            \* facade: the request handled last
    resp,           \* facade: the response it ended in
    gateway_calls,  \* facade: the gateway calls that request made, in order
    configured      \* history: credentials of the most recent successful /configure-proxy

vars == <<input, outcome, component, segments, duration,
          ytt, req, resp, gateway_calls, configured>>

normVars == <<input, outcome, component>>
fmtVars == <<segments, duration>>
srvVars == <<ytt, req, resp, gateway_calls, configured>>

----------------------------------------------------------------------------
(* Strings as chunk sequences *)

ID1 == "dQw4w9WgXcQ"
ID2 == "abcdefghijk"

\* chunks made only of characters of [a-zA-Z0-9_-]
IdChunks == {ID1, ID2, "short", "wxyz12", "watch", "10", "en", "es", "fr"}

ChunkLen(c) ==
    CASE c \in {ID1, ID2} -> 11
      [] c = "youtube.com/" -> 12
      [] c = "youtu.be/" -> 9
      [] c = "https://" -> 8
      [] c \in {"embed/", "wxyz12"} -> 6
      [] c \in {"short", "watch"} -> 5
      [] c = "www." -> 4
      [] c \in {"v=", "t=", "10", "en", "es", "fr"} -> 2
      [] OTHER -> 1

RECURSIVE StrLen(_)
StrLen(s) == IF s = <<>> THEN 0 ELSE ChunkLen(Head(s)) + StrLen(Tail(s))

AllIdChars(s) == \A i \in 1..Len(s) : s[i] \in IdChunks

\* Python's None, as returned by dict.get('v', [None])[0]
None == <<"<None>">>

\* Optional[...] fields: None, or a value
Null == <<>>
Some(x) == <<x>>

Contains(s, c) == \E i \in 1..Len(s) : s[i] = c

ContainsPair(s, a, b) == \E i \in 1..(Len(s) - 1) : s[i] = a /\ s[i + 1] = b

FirstIndex(s, c) == CHOOSE i \in 1..Len(s) : s[i] = c /\ \A j \in 1..(i - 1) : s[j] # c

LastIndex(s, c) == CHOOSE i \in 1..Len(s) : s[i] = c /\ \A j \in (i + 1)..Len(s) : s[j] # c

\* s.split(c)[-1]
AfterLast(s, c) == IF Contains(s, c) THEN SubSeq(s, LastIndex(s, c) + 1, Len(s)) ELSE s

\* s.split(c)[0]
BeforeFirst(s, c) == IF Contains(s, c) THEN SubSeq(s, 1, FirstIndex(s, c) - 1) ELSE s

\* s.split(c, 1)[1]
AfterFirst(s, c) == SubSeq(s, FirstIndex(s, c) + 1, Len(s))

\* s.split(c): the pieces, in order (always at least one piece)
RECURSIVE Split(_, _)
Split(s, c) ==
    IF Contains(s, c)
    THEN <<BeforeFirst(s, c)>> \o Split(AfterFirst(s, c), c)
    ELSE <<s>>

\* re.match(r'^[a-zA-Z0-9_-]{11}$', v): '$' also matches just before a
\* newline that ends the string
ReMatchId(v) ==
    \/ AllIdChars(v) /\ StrLen(v) = 11
    \/ /\ Len(v) >= 1
       /\ v[Len(v)] = "\n"
       /\ AllIdChars(SubSeq(v, 1, Len(v) - 1))
       /\ StrLen(SubSeq(v, 1, Len(v) - 1)) = 11

\* urlparse(url).query: the fragment is cut at the first '#', then the query
\* is what follows the first '?'
UrlQuery(url) ==
    LET nofrag == BeforeFirst(url, "#")
    IN  IF Contains(nofrag, "?") THEN AfterFirst(nofrag, "?") ELSE <<>>

\* parse_qs(query).get('v', [None])[0]: the pairs are split on '&', a pair
\* is named by what precedes its first '=', pairs with a blank value are
\* dropped, and the first remaining value of 'v' is returned
RECURSIVE FirstV(_)
FirstV(pairs) ==
    IF pairs = <<>> THEN None
    ELSE IF Len(Head(pairs)) > 1 /\ Head(pairs)[1] = "v=" THEN Tail(Head(pairs))
    ELSE FirstV(Tail(pairs))

ParseQsV(query) == FirstV(Split(query, "&"))

\* mutant: the query parameter is looked up without parsing the URL first
extract_video_id_raw(url) ==
    IF Contains(url, "youtu.be/") THEN BeforeFirst(AfterLast(url, "youtu.be/"), "?")
    ELSE IF ContainsPair(url, "youtube.com/", "watch") THEN BeforeFirst(AfterLast(url, "v="), "&")
    ELSE IF ContainsPair(url, "youtube.com/", "embed/") THEN AfterLast(url, "embed/")
    ELSE url

extract_video_id(url) ==
    IF Contains(url, "youtu.be/") THEN BeforeFirst(AfterLast(url, "youtu.be/"), "?")
    ELSE IF ContainsPair(url, "youtube.com/", "watch") THEN ParseQsV(UrlQuery(url))
    ELSE IF ContainsPair(url, "youtube.com/", "embed/")
         THEN BeforeFirst(AfterLast(url, "embed/"), "?")
    ELSE url

\* what a validator call ends in: the value it returns, or the exception
\* it raises
Returned(v) == [ok |-> TRUE, v |-> v, exc |-> "none"]
Raised(e) == [ok |-> FALSE, v |-> <<>>, exc |-> e]

\* the pattern check shared by the validators; re.match raises TypeError
\* when handed None
CheckFormat(v) ==
    IF v = None THEN Raised("TypeError")
    ELSE IF ~ReMatchId(v) THEN Raised("ValueError")
    ELSE Returned(v)

\* mutant: the format check is skipped
validate_video_id_unchecked(v) ==
    IF Contains(v, "youtube.com/") \/ Contains(v, "youtu.be/")
    THEN Returned(extract_video_id(v))
    ELSE Returned(v)

\* TranscriptRequest.validate_video_id
validate_video_id(v) ==
    IF Contains(v, "youtube.com/") \/ Contains(v, "youtu.be/")
    THEN CheckFormat(extract_video_id(v))
    ELSE CheckFormat(v)

\* LanguageListRequest.validate_video_id
validate_video_id_languages(v) ==
    IF Contains(v, "youtube.com/") \/ Contains(v, "youtu.be/")
    THEN CheckFormat(extract_video_id(v))
    ELSE CheckFormat(v)

\* app.py: the form's "Extract and validate video ID" block
app_normalize(video_input) == CheckFormat(extract_video_id(video_input))

----------------------------------------------------------------------------
(* The normalizer on its own: the references it is given *)

MaxParams == 1
MaxRaw == 2

\* s1 \o sep \o s2 \o sep ... : the strings of a list joined by a separator
RECURSIVE Join(_, _)
Join(list, sep) ==
    IF list = <<>> THEN <<>>
    ELSE IF Len(list) = 1 THEN list[1]
    ELSE list[1] \o <<sep>> \o Join(Tail(list), sep)

SeqsUpTo(S, n) == UNION {[1..k -> S] : k \in 0..n}

Prefixes == {<<>>, <<"https://">>, <<"https://", "www.">>}

\* identifiers a URL may embed: two valid ones and one of the wrong length
EmbeddedIds == {ID1, ID2, "short"}

\* the other query parameters a URL may carry
Params ==
    {<<"t=", "10">>, <<"v=", ID2>>, <<"v=">>,
     <<"t=", "youtu.be/", ID2>>, <<"t=", "embed/", ID2>>}

ParamLists == SeqsUpTo(Params, MaxParams)

RawChunks == {ID1, "short", "wxyz12", "\n", "?", "#", "youtu.be/"}

QueryOf(params) == IF params = <<>> THEN <<>> ELSE <<"?">> \o Join(params, "&")

\* a reference: the raw string the code receives, and how it was composed
Reference(shape, id, pre, post, raw) ==
    [shape |-> shape, id |-> id, pre |-> pre, post |-> post, raw |-> raw]

ShortUrls ==
    {Reference("youtu.be", id, <<>>, post, p \o <<"youtu.be/", id>> \o QueryOf(post)) :
        <<p, id, post>> \in Prefixes \X EmbeddedIds \X ParamLists}

WatchUrls ==
    {Reference("watch", x[2], x[3], x[4],
               x[1] \o <<"youtube.com/", "watch">> \o QueryOf(x[3] \o <<<<"v=", x[2]>>>> \o x[4])) :
        x \in Prefixes \X EmbeddedIds \X ParamLists \X ParamLists}

EmbedUrls ==
    {Reference("embed", id, <<>>, post, p \o <<"youtube.com/", "embed/", id>> \o QueryOf(post)) :
        <<p, id, post>> \in Prefixes \X EmbeddedIds \X ParamLists}

\* watch URLs whose query has no v=<id> of its own
WatchUrlsWithoutId ==
    {Reference("watch-no-id", "", <<>>, post, p \o <<"youtube.com/", "watch">> \o QueryOf(post)) :
        <<p, post>> \in Prefixes \X ParamLists}

RawStrings == {Reference("raw", "", <<>>, <<>>, s) : s \in SeqsUpTo(RawChunks, MaxRaw)}

References == ShortUrls \cup WatchUrls \cup EmbedUrls \cup WatchUrlsWithoutId \cup RawStrings

NoReference == Reference("none", "", <<>>, <<>>, <<>>)
NoOutcome == [ok |-> FALSE, v |-> <<>>, exc |-> "none"]
NoSegments == <<>>

\* values the variables of the other components hold while one is studied
IdleNorm == input = NoReference /\ outcome = NoOutcome /\ component = "none"
IdleFmt == segments = NoSegments /\ duration = -1

\* POST body validation of /transcript (main.py validator of TranscriptRequest)
ValidateTranscriptRequest ==
    /\ outcome' = validate_video_id(input.raw)
    /\ component' = "TranscriptRequest"
    /\ UNCHANGED <<input, fmtVars, srvVars>>

\* POST body validation of /available-languages
ValidateLanguageListRequest ==
    /\ outcome' = validate_video_id_languages(input.raw)
    /\ component' = "LanguageListRequest"
    /\ UNCHANGED <<input, fmtVars, srvVars>>

\* the form's submit handler, up to the point where the gateway would be called;
\* an empty input never reaches the normalizer (app.py:40)
AppSubmit ==
    /\ input.raw # <<>>
    /\ outcome' = app_normalize(input.raw)
    /\ component' = "app"
    /\ UNCHANGED <<input, fmtVars, srvVars>>

----------------------------------------------------------------------------
(* The response formatter *)

MaxTime == 2
MaxSegs == 2

\* dict.get(key, default)
Get(item, key, default) == IF key \in DOMAIN item THEN item[key] ELSE default

\* mutant: the durations are summed
RECURSIVE calculate_duration_sum(_)
calculate_duration_sum(transcript) ==
    IF transcript = <<>> THEN 0
    ELSE Get(Head(transcript), "duration", 0) + calculate_duration_sum(Tail(transcript))

\* seconds are modelled as naturals
calculate_duration(transcript) ==
    IF transcript = <<>> THEN 0
    ELSE LET last_item == transcript[Len(transcript)]
         IN  Get(last_item, "start", 0) + Get(last_item, "duration", 0)

\* app.py's copy of the same function
app_calculate_duration(transcript) ==
    IF transcript = <<>> THEN 0
    ELSE LET last_item == transcript[Len(transcript)]
         IN  Get(last_item, "start", 0) + Get(last_item, "duration", 0)

\* ' '.join([item['text'] for item in transcript])
RECURSIVE format_transcript_text(_)
format_transcript_text(transcript) ==
    IF transcript = <<>> THEN <<>>
    ELSE IF Len(transcript) = 1 THEN transcript[1].text
    ELSE transcript[1].text \o <<" ">> \o format_transcript_text(Tail(transcript))

\* len(text.split()): the number of maximal runs of non-blank chunks
RECURSIVE WordCount(_)
WordCount(text) ==
    IF text = <<>> THEN 0
    ELSE IF Head(text) = " " THEN WordCount(Tail(text))
    ELSE IF Len(text) > 1 /\ text[2] # " " THEN WordCount(Tail(text))
    ELSE 1 + WordCount(Tail(text))

Times == 0..MaxTime

Segments == [text : {<<"hello">>}, start : Times, duration : Times]

SegmentSeqs == SeqsUpTo(Segments, MaxSegs)

CalculateDuration ==
    /\ duration' = calculate_duration(segments)
    /\ UNCHANGED <<segments, normVars, srvVars>>

AppCalculateDuration ==
    /\ duration' = app_calculate_duration(segments)
    /\ UNCHANGED <<segments, normVars, srvVars>>


NoProxy == [proxy |-> FALSE, proxy_username |-> "", proxy_password |-> ""]
Request(endpoint, video_id, languages, env, proxy_config, construction) ==
    [endpoint |-> endpoint, video_id |-> video_id, languages |-> languages, env |-> env,
     proxy_config |-> proxy_config, construction |-> construction]

NoProxyConfig == [proxy_username |-> "", proxy_password |-> ""]
NoRequest == Request("none", <<>>, Null, <<>>, NoProxyConfig, "none")
NoResponse == [status |-> 0, body |-> [none |-> TRUE]]

IdleSrv ==
    /\ ytt = NoProxy
    /\ req = NoRequest
    /\ resp = NoResponse
    /\ gateway_calls = <<>>
    /\ configured = NoProxy

----------------------------------------------------------------------------
(* The HTTP facade *)

\* --- the external gateway: what a call on ytt returns or raises ---

Ok(value) == [raises |-> "none", value |-> value, message |-> <<>>]
Fails(kind, message) == [raises |-> kind, value |-> <<>>, message |-> message]

GatewayCall(op, api, video_id, languages) ==
    [op |-> op, proxy |-> api, video_id |-> video_id, languages |-> languages]

\* an f-string message: its fixed text and the values spliced into it
Message(text, args) == [text |-> text, args |-> args]

\* --- request and response models ---

\* TranscriptRequest(video_id=..., languages=...): the validated model, or
\* the pydantic ValidationError its construction raises.  A validator's
\* ValueError and TypeError both end in a ValidationError (the contract of
\* the @validator API the models are written against).
TranscriptRequest(video_id, languages) ==
    LET checked == validate_video_id(video_id)
    IN  IF checked.ok
        THEN [valid |-> TRUE, video_id |-> checked.v,
              languages |-> IF languages = Null THEN <<<<"en">>>> ELSE languages[1]]
        ELSE [valid |-> FALSE, video_id |-> <<>>, languages |-> <<>>]

LanguageListRequest(video_id) ==
    LET checked == validate_video_id_languages(video_id)
    IN  IF checked.ok
        THEN [valid |-> TRUE, video_id |-> checked.v]
        ELSE [valid |-> FALSE, video_id |-> <<>>]

TranscriptResponse(success, video_id, language, available_languages, transcript, formatted_text, error, total_duration, word_count) ==
    [success |-> success, video_id |-> video_id, language |-> language,
     available_languages |-> available_languages, transcript |-> transcript,
     formatted_text |-> formatted_text, error |-> error,
     total_duration |-> total_duration, word_count |-> word_count]

ErrorResponse(video_id, error) ==
    TranscriptResponse(FALSE, video_id, Null, Null, Null, Null, Some(error), Null, Null)

\* what handling a request ends in
Http(status, body) == [status |-> status, body |-> body]

\* FastAPI's answer to a request body or query it cannot validate
RequestValidationError == Http(422, [detail |-> "validation error"])

\* an exception that left the handler
InternalServerError(detail) == Http(500, [detail |-> detail])

Handled(answer, calls) == [response |-> answer, calls |-> calls]

\* --- POST /transcript ---

LanguageCodes(listing) == [i \in 1..Len(listing) |-> listing[i].language_code]

InList(x, list) == \E i \in 1..Len(list) : list[i] = x

\* for transcript in listing: if transcript.language_code in languages: ... break
RECURSIVE FirstListedIn(_, _)
FirstListedIn(listing, languages) ==
    IF listing = <<>> THEN Null
    ELSE IF InList(Head(listing).language_code, languages)
         THEN Some(Head(listing).language_code)
    ELSE FirstListedIn(Tail(listing), languages)

\* mutant: "video unavailable" falls through to the generic clause
TranscriptFailure_collapsed(request, failure) ==
    CASE failure.raises = "TranscriptsDisabled" ->
            ErrorResponse(request.video_id,
                          Message("Transcripts are disabled for this video", <<>>))
      [] failure.raises = "NoTranscriptFound" ->
            ErrorResponse(request.video_id,
                          Message("No transcript found for languages: ", request.languages))
      [] OTHER ->
            ErrorResponse(request.video_id, Message("Unexpected error: ", <<failure.message>>))

\* the except clauses of the handler, in their order
TranscriptFailure(request, failure) ==
    CASE failure.raises = "TranscriptsDisabled" ->
            ErrorResponse(request.video_id,
                          Message("Transcripts are disabled for this video", <<>>))
      [] failure.raises = "NoTranscriptFound" ->
            ErrorResponse(request.video_id,
                          Message("No transcript found for languages: ", request.languages))
      [] failure.raises = "VideoUnavailable" ->
            ErrorResponse(request.video_id, Message("Video is unavailable", <<>>))
      [] OTHER ->
            ErrorResponse(request.video_id, Message("Unexpected error: ", <<failure.message>>))

\* mutant: a failed used-language lookup always reports "unknown"
TranscriptSuccess_unknown(request, api, transcript_list, env) ==
    LET listing == GatewayCall("list_transcripts", api, request.video_id, <<>>)
        available_languages ==
            IF env[1].raises = "none" THEN LanguageCodes(env[1].value) ELSE <<>>
        formatted_text == format_transcript_text(transcript_list)
        used_language ==
            IF transcript_list = <<>> THEN Null
            ELSE IF env[2].raises = "none"
                 THEN FirstListedIn(env[2].value, request.languages)
            ELSE Some(<<"unknown">>)
    IN  Handled(Http(200, TranscriptResponse(TRUE, request.video_id, used_language,
                                             Some(available_languages), Some(transcript_list),
                                             Some(formatted_text), Null,
                                             Some(calculate_duration(transcript_list)),
                                             Some(WordCount(formatted_text)))),
                IF transcript_list = <<>> THEN <<listing>> ELSE <<listing, listing>>)

\* the handler's answer once the transcript has been fetched; env holds the
\* outcomes of the gateway calls still to come, in call order
TranscriptSuccess(request, api, transcript_list, env) ==
    LET listing == GatewayCall("list_transcripts", api, request.video_id, <<>>)
        available_languages ==
            IF env[1].raises = "none" THEN LanguageCodes(env[1].value) ELSE <<>>
        total_duration == calculate_duration(transcript_list)
        formatted_text == format_transcript_text(transcript_list)
        word_count == WordCount(formatted_text)
        used_language ==
            IF transcript_list = <<>> THEN Null
            ELSE IF env[2].raises = "none"
                 THEN FirstListedIn(env[2].value, request.languages)
            ELSE IF request.languages # <<>> THEN Some(request.languages[1])
            ELSE Some(<<"unknown">>)
    IN  Handled(Http(200, TranscriptResponse(TRUE, request.video_id, used_language,
                                             Some(available_languages), Some(transcript_list),
                                             Some(formatted_text), Null,
                                             Some(total_duration), Some(word_count))),
                IF transcript_list = <<>> THEN <<listing>> ELSE <<listing, listing>>)

\* env: the outcomes of the gateway calls the handler makes, in call order
get_transcript(request, api, env) ==
    LET fetch == GatewayCall("get_transcript", api, request.video_id, request.languages)
    IN  IF env[1].raises # "none"
        THEN Handled(Http(200, TranscriptFailure(request, env[1])), <<fetch>>)
        ELSE LET rest == TranscriptSuccess(request, api, env[1].value, Tail(env))
             IN  Handled(rest.response, <<fetch>> \o rest.calls)

\* the route: FastAPI builds the body model, then calls the handler
post_transcript(video_id, languages, api, env) ==
    LET model == TranscriptRequest(video_id, languages)
    IN  IF ~model.valid THEN Handled(RequestValidationError, <<>>)
        ELSE get_transcript(model, api, env)

\* --- GET /transcript ---

\* str.strip()
RECURSIVE Strip(_)
Strip(s) ==
    IF s # <<>> /\ Head(s) = " " THEN Strip(Tail(s))
    ELSE IF s # <<>> /\ s[Len(s)] = " " THEN Strip(SubSeq(s, 1, Len(s) - 1))
    ELSE s

\* [lang.strip() for lang in pieces if lang.strip()]
RECURSIVE StripNonBlank(_)
StripNonBlank(pieces) ==
    IF pieces = <<>> THEN <<>>
    ELSE IF Strip(Head(pieces)) = <<>> THEN StripNonBlank(Tail(pieces))
    ELSE <<Strip(Head(pieces))>> \o StripNonBlank(Tail(pieces))

\* the model is built inside the handler: its ValidationError leaves the
\* handler as an unhandled exception
get_transcript_get(video_id, languages, api, env) ==
    LET text == IF languages = Null THEN <<"en">> ELSE languages[1]
        language_list == StripNonBlank(Split(text, ","))
        model == TranscriptRequest(video_id, Some(language_list))
    IN  IF ~model.valid THEN Handled(InternalServerError("ValidationError"), <<>>)
        ELSE get_transcript(model, api, env)

\* --- /available-languages ---

LanguagesResponse(success, video_id, available_languages, error) ==
    [success |-> success, video_id |-> video_id,
     available_languages |-> available_languages, error |-> error]

get_available_languages(request, api, env) ==
    LET listing == GatewayCall("list_transcripts", api, request.video_id, <<>>)
        body ==
            CASE env[1].raises = "none" ->
                    LanguagesResponse(TRUE, request.video_id, Some(env[1].value), Null)
              [] env[1].raises = "TranscriptsDisabled" ->
                    LanguagesResponse(FALSE, request.video_id, Null,
                        Some(Message("Transcripts are disabled for this video", <<>>)))
              [] env[1].raises = "VideoUnavailable" ->
                    LanguagesResponse(FALSE, request.video_id, Null,
                        Some(Message("Video is unavailable", <<>>)))
              [] OTHER ->
                    LanguagesResponse(FALSE, request.video_id, Null,
                        Some(Message("Unexpected error: ", <<env[1].message>>)))
    IN  Handled(Http(200, body), <<listing>>)

post_available_languages(video_id, api, env) ==
    LET model == LanguageListRequest(video_id)
    IN  IF ~model.valid THEN Handled(RequestValidationError, <<>>)
        ELSE get_available_languages(model, api, env)

get_available_languages_get(video_id, api, env) ==
    LET model == LanguageListRequest(video_id)
    IN  IF ~model.valid THEN Handled(InternalServerError("ValidationError"), <<>>)
        ELSE get_available_languages(model, api, env)

\* --- /configure-proxy ---

\* mutant: a failed configuration leaves a fresh gateway without proxy behind
configure_proxy_reset(proxy_config, api, env) ==
    IF env = "ok"
    THEN [ytt |-> [proxy |-> TRUE,
                   proxy_username |-> proxy_config.proxy_username,
                   proxy_password |-> proxy_config.proxy_password],
          response |-> Http(200, [success |-> TRUE,
                                  message |-> "Proxy configured successfully"])]
    ELSE [ytt |-> [proxy |-> FALSE, proxy_username |-> "", proxy_password |-> ""],
          response |-> InternalServerError("Failed to configure proxy: ")]

\* env: "ok", or the constructor that raises; the global is assigned only
\* after both constructors have returned
configure_proxy(proxy_config, api, env) ==
    IF env = "ok"
    THEN [ytt |-> [proxy |-> TRUE,
                   proxy_username |-> proxy_config.proxy_username,
                   proxy_password |-> proxy_config.proxy_password],
          response |-> Http(200, [success |-> TRUE,
                                  message |-> "Proxy configured successfully"])]
    ELSE [ytt |-> api,
          response |-> InternalServerError("Failed to configure proxy: ")]

\* --- /health and / ---

health_check == Http(200, [status |-> "healthy", service |-> "YouTube Transcript API"])

root == Http(200, [message |-> "YouTube Transcript FastAPI Server is running",
                   version |-> "1.0.0"])


InitNorm ==
    /\ input \in References
    /\ outcome = NoOutcome
    /\ component = "none"
    /\ IdleFmt
    /\ IdleSrv

NextNorm ==
    \/ ValidateTranscriptRequest
    \/ ValidateLanguageListRequest
    \/ AppSubmit

SpecNorm == InitNorm /\ [][NextNorm]_vars

\* the candidate of extraction steps 1-4 for the reference at hand
Candidate == extract_video_id(input.raw)

\* a valid 11-character identifier
ValidId(s) == AllIdChars(s) /\ StrLen(s) = 11

\* C3 (as stated): whenever the candidate produced by extraction does not match
\* the identifier pattern (no candidate at all included), normalization has
\* failed with the validator's ValueError, the only error it raises.
C3_NonMatchRaisesValueError ==
    (component # "none" /\ (Candidate = None \/ ~ReMatchId(Candidate)))
        => outcome = Raised("ValueError")

\* C4 (as stated): normalizing a bare valid identifier returns it, and
\* normalizing a URL of one of the three recognized shapes that embeds a valid
\* identifier returns that identifier, whatever other parameters it carries.
C4_NormalizeReturnsEmbeddedId ==
    component # "none" =>
        /\ (input.shape = "raw" /\ ValidId(input.raw)) => outcome = Returned(input.raw)
        /\ (input.shape \in {"youtu.be", "watch", "embed"} /\ ValidId(<<input.id>>))
                => outcome = Returned(<<input.id>>)

HasMarker(param, marker) == Contains(param, marker)

\* the other parameters of the URL do not interfere with extraction: none
\* holds a marker that an earlier or the same extraction step splits on, and
\* in a watch URL no non-blank v parameter precedes v=<id>
PlainParams ==
    LET others == input.pre \o input.post
        free(marker) == \A i \in 1..Len(others) : ~HasMarker(others[i], marker)
    IN  CASE input.shape = "youtu.be" -> free("youtu.be/")
          [] input.shape = "watch" ->
                /\ free("youtu.be/")
                /\ \A i \in 1..Len(input.pre) :
                        ~(input.pre[i][1] = "v=" /\ Len(input.pre[i]) > 1)
          [] input.shape = "embed" -> free("youtu.be/") /\ free("embed/")
          [] OTHER -> TRUE

\* C4 (amended): the same, for URLs whose other parameters are plain.
C4_NormalizeReturnsEmbeddedIdPlain ==
    component # "none" =>
        /\ (input.shape = "raw" /\ ValidId(input.raw)) => outcome = Returned(input.raw)
        /\ (input.shape \in {"youtu.be", "watch", "embed"} /\ ValidId(<<input.id>>) /\ PlainParams)
                => outcome = Returned(<<input.id>>)

\* a watch URL whose query carries v=<id> after another parameter, and a
\* later second v, has been normalized to <id>
C4_Witness ==
    /\ component = "TranscriptRequest"
    /\ input.shape = "watch"
    /\ input.id = ID1
    /\ input.pre = <<<<"t=", "10">>>>
    /\ input.post = <<<<"v=", ID2>>>>
    /\ outcome = Returned(<<ID1>>)

InitFmt ==
    /\ segments \in SegmentSeqs
    /\ duration = -1
    /\ IdleNorm
    /\ IdleSrv

NextFmt ==
    \/ CalculateDuration
    \/ AppCalculateDuration

SpecFmt == InitFmt /\ [][NextFmt]_vars

RemoveAt(s, i) == SubSeq(s, 1, i - 1) \o SubSeq(s, i + 1, Len(s))

ReplaceAt(s, i, x) == [s EXCEPT ![i] = x]

\* C9: the total duration is the last segment's start + duration, 0 for the
\* empty sequence, and adding a segment in front, or removing or changing a
\* segment before the last one, leaves it unchanged.
C9_DurationIsEndOfLastSegment ==
    duration # -1 =>
        /\ segments = <<>> => duration = 0
        /\ segments # <<>> =>
            /\ duration = segments[Len(segments)].start + segments[Len(segments)].duration
            /\ \A s \in Segments : calculate_duration(<<s>> \o segments) = duration
            /\ \A i \in 1..(Len(segments) - 1) :
                /\ calculate_duration(RemoveAt(segments, i)) = duration
                /\ \A s \in Segments : calculate_duration(ReplaceAt(segments, i, s)) = duration

RECURSIVE SumOfDurations(_)
SumOfDurations(s) == IF s = <<>> THEN 0 ELSE Head(s).duration + SumOfDurations(Tail(s))

\* two gapped segments: the duration computed is the end of the last one and
\* differs from the sum of the durations
C9_Witness ==
    /\ Len(segments) = 2
    /\ segments[1].duration > 0
    /\ segments[2].start > segments[1].start + segments[1].duration
    /\ duration = segments[2].start + segments[2].duration
    /\ duration # SumOfDurations(segments)

----------------------------------------------------------------------------
(* The facade's requests and the gateway outcomes they meet *)

En == [language_code |-> <<"en">>, language |-> <<"English">>,
       is_generated |-> FALSE, is_translatable |-> TRUE]
Es == [language_code |-> <<"es">>, language |-> <<"Spanish">>,
       is_generated |-> TRUE, is_translatable |-> FALSE]
Fr == [language_code |-> <<"fr">>, language |-> <<"French">>,
       is_generated |-> TRUE, is_translatable |-> TRUE]

Listings == {<<En, Es>>, <<Es, En>>, <<Fr>>}

Hello == [text |-> <<"hello">>, start |-> 0, duration |-> 1]
BigWorld == [text |-> <<"big", " ", "world">>, start |-> 3, duration |-> 2]

Transcripts == {<<>>, <<Hello, BigWorld>>}

FetchFailures ==
    {Fails("TranscriptsDisabled", <<"subtitles are disabled">>),
     Fails("NoTranscriptFound", <<"no transcripts were found">>),
     Fails("VideoUnavailable", <<"the video is no longer available">>),
     Fails("Exception", <<"connection reset">>)}

ListOutcomes == {Fails("Exception", <<"connection reset">>)} \cup {Ok(l) : l \in Listings}

AvailableOutcomes ==
    {Fails(k, <<"connection reset">>) : k \in {"TranscriptsDisabled", "VideoUnavailable", "Exception"}}
    \cup {Ok(l) : l \in Listings}

\* the outcomes of the gateway calls one /transcript request makes, in order:
\* the fetch, the available-languages listing, the used-language listing
TranscriptScripts ==
    {<<f>> : f \in FetchFailures}
    \cup {<<Ok(<<>>), l>> : l \in {Fails("Exception", <<"connection reset">>), Ok(<<En, Es>>)}}
    \cup {<<Ok(x[1]), x[2], x[3]>> :
            x \in (Transcripts \ {<<>>})
                  \X {Fails("Exception", <<"connection reset">>), Ok(<<En, Es>>)}
                  \X ListOutcomes}

\* video references sent to the facade
VideoReferences ==
    {<<ID1>>,
     <<"https://", "youtu.be/", ID1>>,
     <<ID2, "\n">>,
     <<"short">>,
     <<"https://", "www.", "youtube.com/", "watch", "?", "t=", "10">>}

\* POST bodies: languages omitted, or a list
LanguageLists ==
    {Null, Some(<<>>), Some(<<<<"es">>, <<"en">>>>), Some(<<<<"en">>, <<"es">>>>)}

\* GET queries: languages omitted, or a string
LanguageStrings ==
    {Null, Some(<<"es", ",", "en">>), Some(<<"en", ",", " ", "es">>), Some(<<",">>)}

ProxyConfigs == [proxy_username : {"user1", "user2"}, proxy_password : {"secret"}]

Constructions == {"ok", "WebshareProxyConfig raises", "YouTubeTranscriptApi raises"}

\* a request meets gateway outcomes only if its reference passes validation
Meets(valid, env) == (env = <<>>) <=> ~valid

Answer(request, handled) ==
    /\ req' = request
    /\ resp' = handled.response
    /\ gateway_calls' = handled.calls
    /\ UNCHANGED <<ytt, configured, normVars, fmtVars>>

PostTranscript ==
    \E video_id \in VideoReferences, languages \in LanguageLists,
       env \in TranscriptScripts \cup {<<>>} :
        /\ Meets(TranscriptRequest(video_id, languages).valid, env)
        /\ Answer(Request("POST /transcript", video_id, languages, env, NoProxyConfig, "none"),
                  post_transcript(video_id, languages, ytt, env))

GetTranscript ==
    \E video_id \in VideoReferences, languages \in LanguageStrings,
       env \in TranscriptScripts \cup {<<>>} :
        /\ Meets(TranscriptRequest(video_id, Null).valid, env)
        /\ Answer(Request("GET /transcript", video_id, languages, env, NoProxyConfig, "none"),
                  get_transcript_get(video_id, languages, ytt, env))

PostAvailableLanguages ==
    \E video_id \in VideoReferences, env \in {<<o>> : o \in AvailableOutcomes} \cup {<<>>} :
        /\ Meets(LanguageListRequest(video_id).valid, env)
        /\ Answer(Request("POST /available-languages", video_id, Null, env, NoProxyConfig, "none"),
                  post_available_languages(video_id, ytt, env))

GetAvailableLanguages ==
    \E video_id \in VideoReferences, env \in {<<o>> : o \in AvailableOutcomes} \cup {<<>>} :
        /\ Meets(LanguageListRequest(video_id).valid, env)
        /\ Answer(Request("GET /available-languages", video_id, Null, env, NoProxyConfig, "none"),
                  get_available_languages_get(video_id, ytt, env))

ConfigureProxy ==
    \E proxy_config \in ProxyConfigs, construction \in Constructions :
        LET done == configure_proxy(proxy_config, ytt, construction)
        IN  /\ ytt' = done.ytt
            /\ req' = Request("POST /configure-proxy", <<>>, Null, <<>>, proxy_config, construction)
            /\ resp' = done.response
            /\ gateway_calls' = <<>>
            /\ configured' = IF construction = "ok"
                             THEN [proxy |-> TRUE,
                                   proxy_username |-> proxy_config.proxy_username,
                                   proxy_password |-> proxy_config.proxy_password]
                             ELSE configured
            /\ UNCHANGED <<normVars, fmtVars>>

HealthCheck ==
    /\ req' = Request("GET /health", <<>>, Null, <<>>, NoProxyConfig, "none")
    /\ resp' = health_check
    /\ gateway_calls' = <<>>
    /\ UNCHANGED <<ytt, configured, normVars, fmtVars>>

Root ==
    /\ req' = Request("GET /", <<>>, Null, <<>>, NoProxyConfig, "none")
    /\ resp' = root
    /\ gateway_calls' = <<>>
    /\ UNCHANGED <<ytt, configured, normVars, fmtVars>>

Init == IdleSrv /\ IdleNorm /\ IdleFmt

Next ==
    \/ PostTranscript
    \/ GetTranscript
    \/ PostAvailableLanguages
    \/ GetAvailableLanguages
    \/ ConfigureProxy
    \/ HealthCheck
    \/ Root

Spec == Init /\ [][Next]_vars

----------------------------------------------------------------------------
(* Properties of the facade *)

TranscriptEndpoints == {"POST /transcript", "GET /transcript"}
LanguageEndpoints == {"POST /available-languages", "GET /available-languages"}

\* the reference of the request at hand passes the identifier check
ReferencePasses ==
    LET candidate == extract_video_id(req.video_id)
    IN  candidate # None /\ ReMatchId(candidate)

\* the preference list the request at hand asks for
Preferences ==
    IF req.endpoint = "GET /transcript"
    THEN StripNonBlank(Split(IF req.languages = Null THEN <<"en">> ELSE req.languages[1], ","))
    ELSE IF req.languages = Null THEN <<<<"en">>>> ELSE req.languages[1]

C2_OnlyConfigureProxyEndsIn500 ==
    req.endpoint \notin {"none", "POST /configure-proxy"} => resp.status # 500

\* the earliest language of a preference list that occurs in a listing
RECURSIVE EarliestPreferred(_, _)
EarliestPreferred(languages, listing) ==
    IF languages = <<>> THEN Null
    ELSE IF InList(Head(languages), LanguageCodes(listing)) THEN Some(Head(languages))
    ELSE EarliestPreferred(Tail(languages), listing)

\* C5 (as stated): on a successful POST /transcript with a non-empty transcript
\* and a successful listing, the reported language is the earliest language of
\* the preference list that occurs in the listing.
C5_LanguageInPreferenceOrder ==
    (/\ req.endpoint = "POST /transcript"
     /\ Len(req.env) = 3
     /\ req.env[3].raises = "none"
     /\ EarliestPreferred(Preferences, req.env[3].value) # Null)
        => resp.body.language = EarliestPreferred(Preferences, req.env[3].value)

\* the response the claim gives for each failure kind of the fetch
ExpectedFailure(video_id, failure, languages) ==
    [success |-> FALSE, video_id |-> video_id,
     language |-> Null, available_languages |-> Null, transcript |-> Null,
     formatted_text |-> Null, total_duration |-> Null, word_count |-> Null,
     error |->
        Some(CASE failure.raises = "TranscriptsDisabled" ->
                    [text |-> "Transcripts are disabled for this video", args |-> <<>>]
               [] failure.raises = "NoTranscriptFound" ->
                    [text |-> "No transcript found for languages: ", args |-> languages]
               [] failure.raises = "VideoUnavailable" ->
                    [text |-> "Video is unavailable", args |-> <<>>]
               [] OTHER ->
                    [text |-> "Unexpected error: ", args |-> <<failure.message>>])]

\* C6: on /transcript each failure kind of the fetch yields its own response,
\* with success false, the validated identifier and no success field
\* populated; a success response carries no error message.
C6_FailureKindsKeptApart ==
    (req.endpoint \in TranscriptEndpoints /\ req.env # <<>>) =>
        /\ resp.status = 200
        /\ req.env[1].raises # "none" =>
                resp.body = ExpectedFailure(extract_video_id(req.video_id), req.env[1],
                                            Preferences)
        /\ req.env[1].raises = "none" => resp.body.success /\ resp.body.error = Null
        /\ resp.body.success => resp.body.error = Null

\* GET /transcript has met "video unavailable" for a list of two languages
C6_Witness ==
    /\ req.endpoint = "GET /transcript"
    /\ req.env # <<>>
    /\ req.env[1].raises = "VideoUnavailable"
    /\ Len(Preferences) = 2
    /\ resp.status = 200
    /\ ~resp.body.success
    /\ resp.body.error = Some([text |-> "Video is unavailable", args |-> <<>>])

\* C7 (as stated): GET /transcript ends as POST /transcript does when given the
\* list obtained by splitting the languages string on commas ("en" when
\* omitted): same gateway calls, same response.
C7_GetBehavesAsPost ==
    req.endpoint = "GET /transcript" =>
        Handled(resp, gateway_calls) =
            post_transcript(req.video_id,
                            Some(Split(IF req.languages = Null THEN <<"en">>
                                       ELSE req.languages[1], ",")),
                            ytt, req.env)

\* C8: every gateway call uses the credentials of the most recent successful
\* /configure-proxy (no proxy if there was none); a /configure-proxy that
\* fails ends in a 500 and leaves the gateway configuration as it was.
C8_GatewayUsesLastSuccessfulProxy ==
    /\ ytt = configured
    /\ \A i \in 1..Len(gateway_calls) : gateway_calls[i].proxy = configured
    /\ (req.endpoint = "POST /configure-proxy" /\ req.construction # "ok") => resp.status = 500
    /\ (req.endpoint = "POST /configure-proxy" /\ req.construction = "ok") =>
            /\ resp.status = 200
            /\ ytt.proxy
            /\ ytt.proxy_username = req.proxy_config.proxy_username
            /\ ytt.proxy_password = req.proxy_config.proxy_password

\* a transcript request served through a proxy that was configured earlier
C8_Witness ==
    /\ req.endpoint \in TranscriptEndpoints
    /\ Len(gateway_calls) = 3
    /\ configured.proxy
    /\ configured.proxy_username = "user2"
    /\ \A i \in 1..3 : gateway_calls[i].proxy = configured

\* the listing that decides the reported language failed
LanguageLookupFailed == req.env[Len(req.env)].raises # "none"

\* C10 (as stated): on POST /transcript, when the fetch succeeds and the
\* available-languages lookup fails, the response is a success whose language
\* is the first language of the preference list, an empty transcript included.
C10_FallbackIsFirstPreference ==
    (/\ req.endpoint = "POST /transcript"
     /\ Len(req.env) >= 2
     /\ LanguageLookupFailed
     /\ Preferences # <<>>)
        => resp.body.success /\ resp.body.language = Some(Preferences[1])

\* C10 (amended): on POST /transcript with a successful fetch the response is a
\* success; if the transcript is non-empty and the used-language lookup fails,
\* the language is the first of the preference list ("unknown" for an empty
\* list); if the transcript is empty no such lookup is made and the language
\* is left unset.
C10_FallbackForNonEmptyTranscript ==
    (req.endpoint = "POST /transcript" /\ Len(req.env) >= 2) =>
        /\ resp.status = 200
        /\ resp.body.success
        /\ req.env[1].value = <<>> => resp.body.language = Null /\ Len(gateway_calls) = 2
        /\ (req.env[1].value # <<>> /\ req.env[3].raises # "none") =>
                resp.body.language =
                    IF Preferences # <<>> THEN Some(Preferences[1]) ELSE Some(<<"unknown">>)

\* the fallback has been taken: non-empty transcript, failed lookup, and the
\* language reported is the first preference
C10_Witness ==
    /\ req.endpoint = "POST /transcript"
    /\ Len(req.env) = 3
    /\ req.env[3].raises # "none"
    /\ req.languages = Some(<<<<"es">>, <<"en">>>>)
    /\ resp.body.success
    /\ resp.body.language = Some(<<"es">>)

====
